---------------------------- MODULE Spec2Model ----------------------------
(* Model of src/mcpadapt/smolagents_adapter.py: SmolAgentsAdapter.adapt    *)
(* builds one MCPAdaptTool per (func, mcp_tool) pair; MCPAdaptTool.forward *)
(* maps positional/keyword arguments to one argument mapping, calls func   *)
(* and turns the CallToolResult into a string.                             *)
EXTENDS Integers, Sequences, FiniteSets, TLC

VARIABLES tools, built, calls, accepted, last
vars == <<tools, built, calls, accepted, last>>

(* ------------------------------------------------------------------ *)
(* Python / JSON values.  A value is tagged by the one field it has:   *)
(*   [str |-> s]   a string                                            *)
(*   [obj |-> f]   a dict, f a function from keys to values            *)
(*   [arr |-> q]   a list, q a sequence of values                      *)
(*   [ref |-> p]   a jsonref.JsonRef proxy for the node at path p      *)
(*   [none |-> TRUE]  None                                             *)
(* ------------------------------------------------------------------ *)
S(s) == [str |-> s]
O(f) == [obj |-> f]
L(q) == [arr |-> q]
None == [none |-> TRUE]
IsStr(v) == "str" \in DOMAIN v
IsObj(v) == "obj" \in DOMAIN v
IsArr(v) == "arr" \in DOMAIN v
IsProxy(v) == "ref" \in DOMAIN v
EmptyDict == <<>>

(* Bounds of the model. *)
MaxArgs == 2
MaxContent == 2
MaxCalls == 2

(* ------------------------------------------------------------------ *)
(* jsonref.replace_refs(obj) with its defaults (proxies, lazy_load,    *)
(* merge_props=False).                                                 *)
(* ------------------------------------------------------------------ *)

(* A JSON pointer "#/a/b" of the document itself, as the path <<a, b>>. *)
PointerPath(s) ==
  CASE s = "#/$defs/A" -> <<"$defs", "A">>
    [] s = "#/$defs/B" -> <<"$defs", "B">>

(* A reference object: a mapping whose "$ref" is a string. *)
IsRefObject(v) == IsObj(v) /\ "$ref" \in DOMAIN v.obj /\ IsStr(v.obj["$ref"])

(* Every mapping and list is rebuilt; a reference object becomes a proxy *)
(* that stands for the node the pointer names, its other keys dropped.   *)
RECURSIVE replace_refs(_)
replace_refs(v) ==
  IF IsRefObject(v) THEN [ref |-> PointerPath(v.obj["$ref"].str)]
  ELSE IF IsObj(v) THEN O([k \in DOMAIN v.obj |-> replace_refs(v.obj[k])])
  ELSE IF IsArr(v) THEN L([i \in DOMAIN v.arr |-> replace_refs(v.arr[i])])
  ELSE v

(* The node of document doc at path p. *)
RECURSIVE GetPath(_, _)
GetPath(doc, p) ==
  IF p = <<>> THEN doc ELSE GetPath(doc.obj[Head(p)], Tail(p))

(* doc with the node at path p replaced by new. *)
RECURSIVE SetPath(_, _, _)
SetPath(doc, p, new) ==
  IF p = <<>> THEN new
  ELSE O([k \in DOMAIN doc.obj |->
            IF k = Head(p) THEN SetPath(doc.obj[k], Tail(p), new)
            ELSE doc.obj[k]])

(* JsonRef.callback: the path of the object a node stands for.  A proxy  *)
(* stands for the object its pointer names in the stored document, and   *)
(* a proxy found there is followed in turn; every proxy of one pointer   *)
(* stands for the same object.                                           *)
RECURSIVE SubjectPath(_, _)
SubjectPath(doc, p) ==
  LET v == GetPath(doc, p)
  IN IF IsProxy(v) THEN SubjectPath(doc, v.ref) ELSE p

(* What a reader of node v sees: proxies are transparent. *)
RECURSIVE View(_, _)
View(doc, v) ==
  IF IsProxy(v) THEN View(doc, GetPath(doc, SubjectPath(doc, v.ref)))
  ELSE IF IsObj(v) THEN O([k \in DOMAIN v.obj |-> View(doc, v.obj[k])])
  ELSE IF IsArr(v) THEN L([i \in DOMAIN v.arr |-> View(doc, v.arr[i])])
  ELSE v

(* ------------------------------------------------------------------ *)
(* Exceptions and log records.  A message is the sequence of the       *)
(* pieces of its f-string.                                             *)
(* ------------------------------------------------------------------ *)
Exc(type, msg) == [type |-> type, msg |-> msg]
NoExc == Exc("", <<>>)
KeyError(key) == Exc("KeyError", <<key>>)
ValueError(msg) == Exc("ValueError", msg)

(* ------------------------------------------------------------------ *)
(* SmolAgentsAdapter.adapt                                             *)
(* ------------------------------------------------------------------ *)

(* MCPAdaptTool.__init__; func is the callable the class closes over. *)
MCPAdaptTool(func, name, description, inputs, output_type) ==
  [ func |-> func,
    name |-> name,
    description |-> description,
    inputs |-> inputs,
    output_type |-> output_type,
    is_initialized |-> TRUE,
    skip_forward_signature_validation |-> TRUE ]

(* input_schema keeping every key of the resolved schema. *)
input_schema_keys_unfiltered(store) == DOMAIN store.obj

(* The keys of input_schema: those of the resolved schema but "$defs". *)
input_schema_keys(store) == DOMAIN store.obj \ {"$defs"}

(* v[key] = value on the object behind the node at path p, when v has no *)
(* such key.  The assignment goes through a proxy to the object it       *)
(* stands for.                                                           *)
SetDefault(doc, p, key, value) ==
  LET q == SubjectPath(doc, p)
      v == GetPath(doc, q)
  IN IF key \notin DOMAIN v.obj
       THEN SetPath(doc, q, O(v.obj @@ (key :> value)))
       ELSE doc

(* One round of the loop over input_schema["properties"].items(). *)
NormalizeEntry(doc, k) ==
  LET p == <<"properties", k>>
      d1 == SetDefault(doc, p, "description", S("see tool description"))
  IN SetDefault(d1, p, "type", S("string"))

(* The whole loop, over the property names still to visit. *)
RECURSIVE NormalizeAll(_, _)
NormalizeAll(doc, names) ==
  IF names = {} THEN doc
  ELSE LET k == CHOOSE n \in names : TRUE
       IN NormalizeAll(NormalizeEntry(doc, k), names \ {k})

(* The description passed on as it is. *)
OrEmpty_passthrough(x) == x

(* x or "" *)
OrEmpty(x) == IF IsStr(x) /\ x.str # "" THEN x ELSE S("")

(* adapt reading the properties with a default of the empty mapping. *)
adapt_default_empty(func, mcp_tool) ==
  LET resolved == replace_refs(mcp_tool.inputSchema)
      store == IF "properties" \in DOMAIN resolved.obj THEN resolved
               ELSE O(resolved.obj @@ ("properties" :> O(EmptyDict)))
      keys == input_schema_keys(store)
      done == NormalizeAll(store, DOMAIN store.obj["properties"].obj)
  IN [ raised |-> FALSE, exc |-> NoExc,
       tool |-> MCPAdaptTool(func, mcp_tool.name,
                             OrEmpty(mcp_tool.description),
                             View(done, done.obj["properties"]),
                             "string"),
       input_schema |-> O([k \in keys |-> View(done, done.obj[k])]) ]

(* adapt(func, mcp_tool): what it raises or the tool it returns, and the *)
(* input_schema it built on the way, as a reader sees it.                *)
adapt(func, mcp_tool) ==
  LET store == replace_refs(mcp_tool.inputSchema)
      keys == input_schema_keys(store)
  IN IF "properties" \notin keys
       THEN [ raised |-> TRUE, exc |-> KeyError("properties"),
              tool |-> None,
              input_schema |-> O([k \in keys |-> View(store, store.obj[k])]) ]
       ELSE LET done == NormalizeAll(store, DOMAIN store.obj["properties"].obj)
            IN [ raised |-> FALSE, exc |-> NoExc,
                 tool |-> MCPAdaptTool(func, mcp_tool.name,
                                       OrEmpty(mcp_tool.description),
                                       View(done, done.obj["properties"]),
                                       "string"),
                 input_schema |-> O([k \in keys |-> View(done, done.obj[k])]) ]

(* ------------------------------------------------------------------ *)
(* MCPAdaptTool.forward                                                *)
(* ------------------------------------------------------------------ *)

(* A content item of a CallToolResult: TextContent carries text. *)
TextContent(t) == [kind |-> "TextContent", text |-> t]
ImageContent == [kind |-> "ImageContent", text |-> ""]

(* What func does when it is called: it returns a CallToolResult with *)
(* this content, or raises this exception.                            *)
Returns(content) == [raises |-> FALSE, exc |-> NoExc, content |-> content]
Raises(e) == [raises |-> TRUE, exc |-> e, content |-> <<>>]

(* The outcome of one forward: the argument mappings func was called    *)
(* with, in order; the warnings logged; and the string returned or the  *)
(* exception raised.                                                    *)
Outcome(called, warnings, raised, exc, value) ==
  [ called |-> called, warnings |-> warnings,
    raised |-> raised, exc |-> exc, value |-> value ]

(* adapt_output taking the last content item for the first. *)
adapt_output_last_item(self, called, content) ==
  IF Len(content) = 0
    THEN Outcome(called, <<>>, TRUE,
                 ValueError(<<"tool ", self.name, " returned an empty content">>), "")
  ELSE LET warnings ==
             IF Len(content) > 1
               THEN << <<"tool ", self.name,
                         " returned multiple content, using the first one">> >>
               ELSE <<>>
           item == content[Len(content)]
       IN IF item.kind # "TextContent"
            THEN Outcome(called, warnings, TRUE,
                         ValueError(<<"tool ", self.name,
                                      " returned a non-text content: ",
                                      item.kind>>), "")
            ELSE Outcome(called, warnings, FALSE, NoExc, item.text)

(* adapt_output without the check of the first item's type: the text *)
(* attribute of whatever comes first is returned.                    *)
adapt_output_any_kind(self, called, content) ==
  IF Len(content) = 0
    THEN Outcome(called, <<>>, TRUE,
                 ValueError(<<"tool ", self.name, " returned an empty content">>), "")
  ELSE Outcome(called,
               IF Len(content) > 1
                 THEN << <<"tool ", self.name,
                           " returned multiple content, using the first one">> >>
                 ELSE <<>>,
               FALSE, NoExc, content[1].text)

(* Lines 61-74: from the CallToolResult to the string.  The type of the *)
(* first item stands in the message without the quotes around it.       *)
adapt_output(self, called, content) ==
  IF Len(content) = 0
    THEN Outcome(called, <<>>, TRUE,
                 ValueError(<<"tool ", self.name, " returned an empty content">>), "")
  ELSE LET warnings ==
             IF Len(content) > 1
               THEN << <<"tool ", self.name,
                         " returned multiple content, using the first one">> >>
               ELSE <<>>
       IN IF content[1].kind # "TextContent"
            THEN Outcome(called, warnings, TRUE,
                         ValueError(<<"tool ", self.name,
                                      " returned a non-text content: ",
                                      content[1].kind>>), "")
            ELSE Outcome(called, warnings, FALSE, NoExc, content[1].text)

(* call_func catching what func raises and raising its own error. *)
call_func_wrapping(self, mapping, remote) ==
  IF remote.raises
    THEN Outcome(<<mapping>>, <<>>, TRUE,
                 ValueError(<<"tool ", self.name, " failed">>), "")
    ELSE adapt_output(self, <<mapping>>, remote.content)

(* call_func calling func a second time when the result is empty. *)
call_func_retrying(self, mapping, remote) ==
  IF remote.raises
    THEN Outcome(<<mapping>>, <<>>, TRUE, remote.exc, "")
    ELSE IF Len(remote.content) = 0
      THEN adapt_output(self, <<mapping, mapping>>, remote.content)
      ELSE adapt_output(self, <<mapping>>, remote.content)

(* mcp_output = func(mapping), and what follows it.  An exception of *)
(* func is not caught.                                               *)
call_func(self, mapping, remote) ==
  IF remote.raises
    THEN Outcome(<<mapping>>, <<>>, TRUE, remote.exc, "")
    ELSE adapt_output(self, <<mapping>>, remote.content)

(* forward without the test that kwargs is empty. *)
forward_kwargs_unchecked(self, args, kwargs, remote) ==
  IF Len(args) > 0
    THEN IF Len(args) = 1 /\ IsObj(args[1])
           THEN call_func(self, args[1].obj, remote)
           ELSE Outcome(<<>>, <<>>, TRUE,
                        ValueError(<<"tool ", self.name,
                          " does not support multiple positional arguments or combined positional and keyword arguments">>),
                        "")
    ELSE call_func(self, kwargs, remote)

(* forward passing kwargs to func in both branches. *)
forward_always_kwargs(self, args, kwargs, remote) ==
  IF Len(args) > 0
    THEN IF Len(args) = 1 /\ IsObj(args[1]) /\ DOMAIN kwargs = {}
           THEN call_func(self, kwargs, remote)
           ELSE Outcome(<<>>, <<>>, TRUE,
                        ValueError(<<"tool ", self.name,
                          " does not support multiple positional arguments or combined positional and keyword arguments">>),
                        "")
    ELSE call_func(self, kwargs, remote)

(* forward, with its positional args and keyword kwargs; remote is what *)
(* func does if it is called.                                           *)
forward(self, args, kwargs, remote) ==
  IF Len(args) > 0
    THEN IF Len(args) = 1 /\ IsObj(args[1]) /\ DOMAIN kwargs = {}
           THEN call_func(self, args[1].obj, remote)
           ELSE Outcome(<<>>, <<>>, TRUE,
                        ValueError(<<"tool ", self.name,
                          " does not support multiple positional arguments or combined positional and keyword arguments">>),
                        "")
    ELSE call_func(self, kwargs, remote)

(* ------------------------------------------------------------------ *)
(* Inputs: tool descriptors (mcp.types.Tool).                          *)
(* ------------------------------------------------------------------ *)
PropNames == {"a", "b"}

RefA == O("$ref" :> S("#/$defs/A"))
RefB == O("$ref" :> S("#/$defs/B"))
EnumXY == L(<<S("x"), S("y")>>)

FieldValue(k) ==
  CASE k = "description" -> S("d")
    [] k = "type" -> S("integer")
    [] k = "title" -> S("t")

(* Property entries without a reference: any of the three fields. *)
PlainEntries ==
  {O([k \in ks |-> FieldValue(k)]) : ks \in SUBSET {"description", "type", "title"}}

(* Property entries with a reference: the entry itself (alone, or beside *)
(* a description of its own), or inside items or anyOf.                  *)
RefEntries ==
  { RefA, RefB,
    O(("$ref" :> S("#/$defs/A")) @@ ("description" :> S("own"))),
    O(("type" :> S("array")) @@ ("items" :> RefA)),
    O("anyOf" :> L(<<RefA, O("type" :> S("null"))>>)) }

(* Definitions: A may refer to B (directly or inside items); B is plain. *)
DefsA ==
  { O("enum" :> EnumXY),
    O(("type" :> S("string")) @@ ("description" :> S("dA")) @@ ("enum" :> EnumXY)),
    RefB,
    O(("type" :> S("array")) @@ ("items" :> RefB)) }
DefsB ==
  { O("title" :> S("B")),
    O(("type" :> S("integer")) @@ ("description" :> S("dB"))) }

PropertyMaps(entries) == UNION {[ks -> entries] : ks \in SUBSET PropNames}
DefsMaps == {("A" :> a) @@ ("B" :> b) : a \in DefsA, b \in DefsB}

ObjectType == "type" :> S("object")

(* Input schemas: with or without "properties", with or without "$defs"; *)
(* every reference names a definition that is there, and no definition   *)
(* refers to itself.                                                     *)
InputSchemas ==
  {O(ObjectType)}
  \cup {O(ObjectType @@ ("$defs" :> O(dm))) : dm \in DefsMaps}
  \cup {O(ObjectType @@ ("properties" :> O(pm))) : pm \in PropertyMaps(PlainEntries)}
  \cup {O(ObjectType @@ ("properties" :> O(pm)) @@ ("$defs" :> O(dm))) :
          pm \in PropertyMaps(PlainEntries \cup RefEntries), dm \in DefsMaps}

Tool(name, description, inputSchema) ==
  [name |-> name, description |-> description, inputSchema |-> inputSchema]

Descriptions == {None, S(""), S("does it")}
Descriptors ==
  {Tool("tool", d, sch) : d \in Descriptions, sch \in InputSchemas}

(* The descriptors the collaborator discovers in the lifecycle: one plain, *)
(* one with references, one without "properties".                          *)
EchoTool ==
  Tool("echo", None,
       O(ObjectType @@ ("properties" :> O("a" :> O("type" :> S("integer"))))))
PaintTool ==
  Tool("paint", S("paints"),
       O(ObjectType
         @@ ("properties" :> O(("a" :> RefA)
                               @@ ("b" :> O(("type" :> S("array")) @@ ("items" :> RefA)))))
         @@ ("$defs" :> O(("A" :> O("enum" :> EnumXY)) @@ ("B" :> O("title" :> S("B")))))))
BrokenTool == Tool("broken", S(""), O(ObjectType))
Discovered == {EchoTool, PaintTool, BrokenTool}

(* ------------------------------------------------------------------ *)
(* Inputs: invocations and what the remote does.                       *)
(* ------------------------------------------------------------------ *)
ArgMappings == {EmptyDict, "x" :> 1, ("x" :> 1) @@ ("y" :> 2)}
PositionalValues == {O(EmptyDict), O("x" :> 1), S("x")}
ArgLists == UNION {[1..n -> PositionalValues] : n \in 0..MaxArgs}
ContentItems == {TextContent("a"), TextContent("b"), ImageContent}
Contents == UNION {[1..n -> ContentItems] : n \in 0..MaxContent}
TimeoutError == Exc("TimeoutError", <<"timed out">>)
Remotes == {Returns(c) : c \in Contents} \cup {Raises(TimeoutError)}
NotCalled == [raises |-> FALSE, exc |-> NoExc, content |-> <<>>, idle |-> TRUE]

(* ------------------------------------------------------------------ *)
(* The state machine.                                                  *)
(*   tools     the tools built so far, in order; tool i closes over    *)
(*             func i                                                  *)
(*   built     per tool, the descriptor it was built from and the tool *)
(*             as adapt returned it                                    *)
(*   calls     per func, how often it was called                       *)
(*   accepted  per tool, how many invocations reached func             *)
(*   last      the last operation: its inputs and its outcome          *)
(* ------------------------------------------------------------------ *)
(* The call functions the collaborator supplies, one per pair. *)
Funcs == {1, 2}

NoTool == Tool("", None, O(EmptyDict))
NoAdapt == [raised |-> FALSE, exc |-> NoExc, tool |-> None, input_schema |-> O(EmptyDict)]
NoOutcome == Outcome(<<>>, <<>>, FALSE, NoExc, "")
Last(op, tool, mcp_tool, adapted, args, kwargs, remote, out) ==
  [ op |-> op, tool |-> tool, mcp_tool |-> mcp_tool, adapted |-> adapted,
    args |-> args, kwargs |-> kwargs, remote |-> remote, out |-> out ]

Init ==
  /\ tools = <<>>
  /\ built = <<>>
  /\ calls = [f \in Funcs |-> 0]
  /\ accepted = [f \in Funcs |-> 0]
  /\ last = Last("none", 0, NoTool, NoAdapt, <<>>, EmptyDict, NotCalled, NoOutcome)

RECURSIVE Total(_, _)
Total(count, n) == IF n = 0 THEN 0 ELSE count[n] + Total(count, n - 1)

(* adapt(func, mcp_tool) for the next pair; the caller keeps the tool. *)
AdaptAs(op, mcp_tool) ==
  /\ Len(tools) < Cardinality(Funcs)
  /\ LET r == adapt(Len(tools) + 1, mcp_tool)
     IN /\ tools' = IF r.raised THEN tools ELSE Append(tools, r.tool)
        /\ built' = IF r.raised THEN built
                    ELSE Append(built, [mcp_tool |-> mcp_tool, tool |-> r.tool])
        /\ last' = Last(op, IF r.raised THEN 0 ELSE Len(tools) + 1, mcp_tool, r,
                        <<>>, EmptyDict, NotCalled, NoOutcome)
  /\ UNCHANGED <<calls, accepted>>

Adapt == \E d \in Discovered : AdaptAs("adapt", d)

(* One invocation of tool t.  func runs inside it, once per mapping it *)
(* is called with; what it does is asked only of a func that is called. *)
Forward ==
  \E t \in 1..Len(tools), args \in ArgLists, kwargs \in ArgMappings :
    /\ Total(calls, Cardinality(Funcs)) < MaxCalls
    /\ LET self == tools[t]
           reached == forward(self, args, kwargs, Returns(<<>>)).called # <<>>
       IN \E remote \in (IF reached THEN Remotes ELSE {NotCalled}) :
            LET out == forward(self, args, kwargs, remote)
            IN /\ calls' = [calls EXCEPT ![self.func] = @ + Len(out.called)]
               /\ accepted' = [accepted EXCEPT ![t] = @ + (IF reached THEN 1 ELSE 0)]
               /\ last' = Last("forward", t, NoTool, NoAdapt, args, kwargs, remote, out)
    /\ UNCHANGED <<tools, built>>

Next == Adapt \/ Forward
Spec == Init /\ [][Next]_vars

(* adapt as a function of the descriptor: any descriptor once, then the *)
(* same descriptor with the schema the first run resolved.              *)
AdaptAny == Len(tools) = 0 /\ \E d \in Descriptors : AdaptAs("adapt", d)
Readapt ==
  /\ Len(tools) = 1
  /\ last.op = "adapt"
  /\ AdaptAs("readapt", [last.mcp_tool EXCEPT !.inputSchema = last.adapted.input_schema])
NextAdapt == AdaptAny \/ Readapt
SpecAdapt == Init /\ [][NextAdapt]_vars

(* ------------------------------------------------------------------ *)
(* Properties of forward.                                              *)
(* ------------------------------------------------------------------ *)

(* The calling conventions the specification calls ambiguous. *)
Ambiguous(args, kwargs) ==
  \/ Len(args) >= 2
  \/ Len(args) = 1 /\ ~IsObj(args[1])
  \/ Len(args) = 1 /\ DOMAIN kwargs # {}

(* A message names x when x is one of its pieces. *)
Names(msg, x) == \E i \in DOMAIN msg : msg[i] = x

Invoked == last.op = "forward"
(* func returned a CallToolResult in the last invocation. *)
Answered == Invoked /\ last.out.called # <<>> /\ ~last.remote.raises

(* C1: an invocation with two or more positional arguments, with one      *)
(* positional argument that is not a mapping, or with one positional      *)
(* argument and a keyword argument raises a ValueError naming the tool,   *)
(* and func is not called in it.                                          *)
C1_AmbiguousRejected ==
  (Invoked /\ Ambiguous(last.args, last.kwargs))
    => /\ last.out.raised
       /\ last.out.exc.type = "ValueError"
       /\ Names(last.out.exc.msg, tools[last.tool].name)
       /\ last.out.called = <<>>
       /\ last.remote = NotCalled
       /\ last.out.value = ""

C1_Witness ==
  /\ Invoked
  /\ Len(last.args) = 1 /\ IsObj(last.args[1]) /\ DOMAIN last.kwargs # {}
  /\ last.out.raised /\ last.out.called = <<>>

(* C2: an invocation that is not ambiguous calls func with exactly one   *)
(* mapping: the positional mapping itself when there is one, the keyword *)
(* arguments otherwise (the empty mapping when there are none).          *)
C2_MappingForwarded ==
  (Invoked /\ ~Ambiguous(last.args, last.kwargs))
    => last.out.called =
         << IF Len(last.args) = 1 THEN last.args[1].obj ELSE last.kwargs >>

C2_Witness ==
  /\ Invoked
  /\ last.args = << O("x" :> 1) >> /\ last.kwargs = EmptyDict
  /\ last.out.called = << "x" :> 1 >>

DiscardWarning(name) ==
  << <<"tool ", name, " returned multiple content, using the first one">> >>

(* C3: when func returns more than one content item, the discard warning *)
(* is logged and the first item alone decides the outcome; when the      *)
(* first item is text its text is returned as it is, whatever follows,   *)
(* and the warning is logged exactly when there is more than one item.   *)
C3_FirstItemUsed ==
  Answered =>
    LET content == last.remote.content
        name == tools[last.tool].name
    IN /\ Len(content) > 1 =>
            /\ last.out.warnings = DiscardWarning(name)
            /\ last.out.raised = (content[1].kind # "TextContent")
            /\ ~last.out.raised => last.out.value = content[1].text
       /\ (Len(content) >= 1 /\ content[1].kind = "TextContent") =>
            /\ ~last.out.raised
            /\ last.out.value = content[1].text
            /\ (last.out.warnings # <<>>) = (Len(content) > 1)
            /\ last.out.warnings \in {<<>>, DiscardWarning(name)}

C3_Witness ==
  /\ Answered
  /\ last.remote.content = <<TextContent("a"), TextContent("b")>>
  /\ last.out.value = "a"
  /\ last.out.warnings # <<>>

(* C4: when func returns no content the invocation raises the ValueError *)
(* of the empty content, naming the tool; when the first item is not     *)
(* text it raises the ValueError of non-text content, naming the tool    *)
(* and the type of the item; no string is returned, and func has been    *)
(* called by then.                                                       *)
C4_EmptyOrNonText ==
  Answered =>
    LET content == last.remote.content
        name == tools[last.tool].name
    IN /\ Len(content) = 0 =>
            /\ last.out.raised
            /\ last.out.exc = ValueError(<<"tool ", name, " returned an empty content">>)
            /\ last.out.value = ""
            /\ Len(last.out.called) = 1
       /\ (Len(content) >= 1 /\ content[1].kind # "TextContent") =>
            /\ last.out.raised
            /\ last.out.exc.type = "ValueError"
            /\ Names(last.out.exc.msg, name)
            /\ Names(last.out.exc.msg, content[1].kind)
            /\ last.out.exc # ValueError(<<"tool ", name, " returned an empty content">>)
            /\ last.out.value = ""
            /\ Len(last.out.called) = 1

C4_Witness ==
  /\ Answered
  /\ last.remote.content = <<ImageContent, TextContent("a")>>
  /\ last.out.raised
  /\ Names(last.out.exc.msg, "ImageContent")

(* C9: when func raises, the invocation raises that same exception; no *)
(* string is returned, no warning is logged and func is not called     *)
(* again.                                                              *)
C9_RemoteFailurePassesThrough ==
  (Invoked /\ last.remote.raises)
    => /\ last.out.raised
       /\ last.out.exc = last.remote.exc
       /\ last.out.value = ""
       /\ last.out.warnings = <<>>
       /\ Len(last.out.called) = 1

C9_Witness ==
  /\ Invoked
  /\ last.remote = Raises(TimeoutError)
  /\ last.out.exc = TimeoutError

(* C10: func f is called only in invocations of the tool built from it: *)
(* its number of calls is the number of accepted invocations of that    *)
(* tool, and zero while no tool is built from it; a rejected invocation *)
(* calls nothing and an accepted one calls func once.                   *)
C10_OneCallPerAcceptedInvocation ==
  /\ \A f \in Funcs :
       calls[f] = IF f <= Len(tools) THEN accepted[f] ELSE 0
  /\ \A t \in 1..Len(tools) : tools[t].func = t
  /\ Invoked =>
       Len(last.out.called) =
         IF Ambiguous(last.args, last.kwargs) THEN 0 ELSE 1

C10_Witness ==
  /\ Len(tools) = 2
  /\ calls[1] = 1 /\ calls[2] = 1
  /\ Invoked /\ last.out.raised /\ last.out.called # <<>>

(* ------------------------------------------------------------------ *)
(* Properties of adapt.                                                *)
(* ------------------------------------------------------------------ *)
Adapted == last.op \in {"adapt", "readapt"}
Built == Adapted /\ ~last.adapted.raised

(* The schema with every reference object replaced by the definition it *)
(* names, and so on inside that definition: the resolved schema of the  *)
(* specification's data model.                                          *)
RECURSIVE Substituted(_, _)
Substituted(schema, v) ==
  IF IsRefObject(v)
    THEN Substituted(schema, GetPath(schema, PointerPath(v.obj["$ref"].str)))
  ELSE IF IsObj(v) THEN O([k \in DOMAIN v.obj |-> Substituted(schema, v.obj[k])])
  ELSE IF IsArr(v) THEN L([i \in DOMAIN v.arr |-> Substituted(schema, v.arr[i])])
  ELSE v

(* v holds key somewhere inside it. *)
RECURSIVE HasKey(_, _)
HasKey(v, key) ==
  IF IsObj(v)
    THEN key \in DOMAIN v.obj \/ \E k \in DOMAIN v.obj : HasKey(v.obj[k], key)
  ELSE IF IsArr(v) THEN \E i \in DOMAIN v.arr : HasKey(v.arr[i], key)
  ELSE FALSE

(* v holds a reference somewhere inside it. *)
RECURSIVE HasReference(_)
HasReference(v) ==
  IF IsProxy(v) \/ IsRefObject(v) THEN TRUE
  ELSE IF IsObj(v) THEN \E k \in DOMAIN v.obj : HasReference(v.obj[k])
  ELSE IF IsArr(v) THEN \E i \in DOMAIN v.arr : HasReference(v.arr[i])
  ELSE FALSE

(* C5: the tool's inputs have the property names of the schema, and each *)
(* property has the description and the type of its resolved entry, or   *)
(* "see tool description" and "string" where the entry has none, and     *)
(* every other field of the resolved entry as it was.                    *)
C5_EntriesNormalized ==
  (last.op = "adapt" /\ ~last.adapted.raised) =>
    LET schema == last.mcp_tool.inputSchema
        props == schema.obj["properties"].obj
        inputs == last.adapted.tool.inputs.obj
    IN /\ DOMAIN inputs = DOMAIN props
       /\ \A k \in DOMAIN props :
            LET entry == Substituted(schema, props[k]).obj
                out == inputs[k].obj
            IN /\ DOMAIN out = DOMAIN entry \cup {"description", "type"}
               /\ out["description"] =
                    IF "description" \in DOMAIN entry THEN entry["description"]
                    ELSE S("see tool description")
               /\ out["type"] =
                    IF "type" \in DOMAIN entry THEN entry["type"] ELSE S("string")
               /\ \A f \in DOMAIN entry \ {"description", "type"} :
                    out[f] = entry[f]

(* C6: the resolved schema and the tool's inputs hold no reference and no *)
(* "$defs" key, and adapt run again on the resolved schema gives the same *)
(* properties mapping and the same schema.                                *)
C6_ResolutionIdempotent ==
  /\ Adapted =>
       /\ ~HasKey(last.adapted.input_schema, "$defs")
       /\ ~HasReference(last.adapted.input_schema)
  /\ Built => ~HasReference(last.adapted.tool.inputs)
  /\ (last.op = "readapt" /\ Len(tools) = 2) =>
       /\ tools[2].inputs = tools[1].inputs
       /\ last.adapted.input_schema = last.mcp_tool.inputSchema

(* A readapt of a schema whose property a came from definition A through *)
(* a reference.                                                          *)
C6_Witness ==
  /\ last.op = "readapt" /\ Len(tools) = 2
  /\ HasKey(built[1].mcp_tool.inputSchema, "$defs")
  /\ "a" \in DOMAIN built[1].mcp_tool.inputSchema.obj["properties"].obj
  /\ built[1].mcp_tool.inputSchema.obj["properties"].obj["a"] = RefA
  /\ "a" \in DOMAIN tools[2].inputs.obj
  /\ "enum" \in DOMAIN tools[2].inputs.obj["a"].obj

(* C7: adapt of a descriptor whose schema has no "properties" raises the *)
(* KeyError of that key and returns no tool: no tool is ever built from  *)
(* such a descriptor, with an empty inputs mapping or any other.         *)
C7_MissingPropertiesRaises ==
  /\ (Adapted /\ "properties" \notin DOMAIN last.mcp_tool.inputSchema.obj) =>
       /\ last.adapted.raised
       /\ last.adapted.exc = KeyError("properties")
       /\ last.adapted.tool = None
       /\ last.tool = 0
       /\ last.out.called = <<>>
  /\ \A t \in 1..Len(built) :
       "properties" \in DOMAIN built[t].mcp_tool.inputSchema.obj
  /\ Len(tools) = Len(built)

C7_Witness ==
  /\ last.op = "adapt"
  /\ last.mcp_tool = BrokenTool
  /\ last.adapted.raised
  /\ Len(tools) = 1

(* C8: every tool keeps the attributes adapt gave it, through any       *)
(* sequence of invocations: the descriptor's name, its description or   *)
(* "" when that is None, the resolved properties, "string", and both    *)
(* marks; and an invocation's outcome is that of forward on the tool as *)
(* built, its own arguments and func's answer to it.                    *)
C8_AttributesFixed ==
  /\ Len(tools) = Len(built)
  /\ \A t \in 1..Len(tools) :
       LET d == built[t].mcp_tool
       IN /\ tools[t] = built[t].tool
          /\ tools[t].name = d.name
          /\ tools[t].description # None
          /\ tools[t].description =
               IF d.description = None THEN S("") ELSE d.description
          /\ ~HasReference(tools[t].inputs)
          /\ DOMAIN tools[t].inputs.obj
               = DOMAIN d.inputSchema.obj["properties"].obj
          /\ tools[t].output_type = "string"
          /\ tools[t].is_initialized
          /\ tools[t].skip_forward_signature_validation
  /\ (last.op = "adapt" /\ ~last.adapted.raised) =>
       /\ tools[last.tool] = last.adapted.tool
       /\ tools[last.tool].inputs = last.adapted.input_schema.obj["properties"]
  /\ Invoked =>
       last.out = forward(built[last.tool].tool, last.args, last.kwargs, last.remote)

(* The tool built from a descriptor without description, after two *)
(* accepted invocations of it.                                     *)
C8_Witness ==
  /\ Len(tools) >= 1
  /\ built[1].mcp_tool.description = None
  /\ tools[1].description = S("")
  /\ accepted[1] = 2

=============================================================================
